---------------------------- MODULE Spec2Model ----------------------------
(***************************************************************************)
(* A model of src/main.rs of the transcript tool: the WavLengthPatcher     *)
(* stream wrapper, parse_wav, segment_time_to_srt_time_string and the      *)
(* segment loop and file writes of main.                                   *)
(*                                                                         *)
(* Bytes are integers 0..255.  Strings the program formats are sequences   *)
(* of one-character strings.  Four specifications share the variables:     *)
(*   SpecPatcher  reads of a WavLengthPatcher over an input stream,        *)
(*   SpecParse    one call of parse_wav,                                   *)
(*   SpecFmt      one call of segment_time_to_srt_time_string,             *)
(*   SpecMain     one run of main.                                         *)
(***************************************************************************)
EXTENDS Integers, Sequences, FiniteSets, TLC

VARIABLES
    \* WavLengthPatcher and the source it wraps
    stream,             \* the bytes the underlying source holds
    off,                \* bytes the underlying source has handed out so far
    pos,                \* WavLengthPatcher.pos : u8
    outp,               \* bytes WavLengthPatcher.read has returned to its consumer
    ret,                \* how the last read call ended: none, ok, err, panic
    ovf,                \* an u8 addition in read has left 0..255
    \* parse_wav
    wavspec,            \* reader.spec()
    data,               \* bytes of the data chunk still held by the source
    num_samples,        \* samples the header declares
    samples_read,       \* samples the iterator has been asked for
    bytePos,            \* bytes of data consumed
    fault,              \* [at, kind]: the read that fails with another error
    collected,          \* samples map_while has passed on so far
    last,               \* outcome of the last call of the sample iterator
    audio_data,         \* what parse_wav returned: [set, v]
    nreads,             \* calls of the sample iterator
    \* segment_time_to_srt_time_string
    time,               \* its argument
    clock,              \* its result
    \* main
    pc,                 \* position of the run
    panicMsg,           \* message of the panic that ended the run, or ""
    env,                \* what the run finds: [model, tty, input, old]
    segments,           \* what the engine holds after state.full
    num_segments,       \* state.full_n_segments()
    i,                  \* loop index of main
    srt_sequences,      \* Vec<String> of cues
    timestamped_lines,  \* Vec<String> of transcript lines
    txtFile,            \* <output>.txt : [exists, lines]
    srtFile             \* <output>.srt : [exists, lines]

patcherVars == <<stream, off, pos, outp, ret, ovf>>
parseVars   == <<wavspec, data, num_samples, samples_read, bytePos, fault, collected, last,
                 audio_data, nreads>>
fmtVars     == <<time, clock>>
mainVars    == <<env, segments, num_segments, i, srt_sequences, timestamped_lines,
                 txtFile, srtFile>>
vars == <<patcherVars, parseVars, fmtVars, mainVars, pc, panicMsg>>

Min(a, b) == IF a < b THEN a ELSE b
Max(a, b) == IF a > b THEN a ELSE b

(***************************************************************************)
(* Bounds of the model.                                                    *)
(***************************************************************************)
MaxStreamLen == 156     \* longest input stream of SpecPatcher
MaxRead      == 79      \* most bytes one underlying read returns
MaxTime      == 120     \* SpecFmt formats every time of -MaxTime..MaxTime
MaxSegments  == 2       \* most segments the engine returns in SpecMain
MaxSamples   == 2       \* most whole samples the data of SpecParse holds

(***************************************************************************)
(* WavLengthPatcher                                                        *)
(***************************************************************************)
U8        == 256        \* pos : u8
HeaderEnd == 78         \* 0x4e
Sentinel  == 255        \* 0xFF
Patched   == 240        \* 0xF0

PatchOffsets  == {4, 74}                        \* 0x04 | 0x4A
AssertOffsetsShort == {5, 6, 7, 75, 76}         \* a variant without 0x4d
AssertOffsets == {5, 6, 7, 75, 76, 77}          \* 0x05 | 0x06 | 0x07 | 0x4b | 0x4c | 0x4d

\* self.pos < 0x4e
InHeader(p) == p < HeaderEnd

\* A variant of capped without the min.
cappedNoMin(l) == l % U8

\* l.min(0x4e) as u8
capped(l) == Min(l, HeaderEnd) % U8

\* A variant of NextPos that leaves the counter where it was.
NextPosStuck(p, capped_l) == p

\* self.pos += capped_l
NextPos(p, capped_l) == (p + capped_l) % U8

\* The arm of `match p + self.pos` an offset takes.
Arm(o) ==
    IF o \in PatchOffsets THEN "patch"
    ELSE IF o \in AssertOffsets THEN "assert"
    ELSE "pass"

\* The loop `for p in 0 .. capped_l` over the buffer `chunk`: it runs up to the
\* first p whose assert_eq! fails (a byte other than 0xFF under the arm "patch" or
\* "assert"), or to capped_l; every p before that under "patch" is set to 0xF0.
\* [buf, panicked, ovf], ovf telling whether a sum p + self.pos left the u8 range.
PatchLoop(capped_l, cur, chunk) ==
    LET o(p)    == (p + cur) % U8
        failing == {p \in 0..(capped_l - 1) :
                       Arm(o(p)) # "pass" /\ chunk[p + 1] # Sentinel}
        stop    == IF failing = {} THEN capped_l
                   ELSE CHOOSE p \in failing : \A q \in failing : p <= q
    IN  [buf      |-> [k \in 1..Len(chunk) |->
                          IF k - 1 < stop /\ Arm(o(k - 1)) = "patch"
                          THEN Patched ELSE chunk[k]],
         panicked |-> failing # {},
         ovf      |-> \E p \in 0..(capped_l - 1) : p <= stop /\ p + cur >= U8]

\* WavLengthPatcher::read after self.stream.read(buf) returned Ok(l) with the
\* bytes `chunk`: [buf, panicked, pos, ovf, n], n the count of Ok(n).
PatcherRead(cur, chunk) ==
    LET l == Len(chunk)
    IN  IF InHeader(cur)
        THEN LET capped_l == capped(l)
                 r == PatchLoop(capped_l, cur, chunk)
             IN  [buf      |-> r.buf,
                  panicked |-> r.panicked,
                  pos      |-> IF r.panicked THEN cur ELSE NextPos(cur, capped_l),
                  ovf      |-> r.ovf \/ (~r.panicked /\ cur + capped_l >= U8),
                  n        |-> l]
        ELSE [buf |-> chunk, panicked |-> FALSE, pos |-> cur, ovf |-> FALSE, n |-> l]

(***************************************************************************)
(* Values of the variables a specification does not use.                   *)
(***************************************************************************)
NoSpec  == [channels |-> 0, sample_format |-> "none", sample_rate |-> 0, bits_per_sample |-> 0]
NoFault == [at |-> 0, kind |-> "none"]
NoAudio == [set |-> FALSE, v |-> <<>>]
NoFile  == [exists |-> FALSE, lines |-> <<>>]
NoEnv   == [model |-> FALSE, tty |-> FALSE, input |-> "none", old |-> FALSE]

IdlePatcher ==
    /\ stream = <<>> /\ off = 0 /\ pos = 0 /\ outp = <<>> /\ ret = "none" /\ ovf = FALSE
IdleParse ==
    /\ wavspec = NoSpec /\ data = <<>> /\ num_samples = 0 /\ samples_read = 0
    /\ bytePos = 0 /\ fault = NoFault /\ collected = <<>> /\ last = "none"
    /\ audio_data = NoAudio /\ nreads = 0
IdleFmt ==
    /\ time = 0 /\ clock = <<>>
IdleMain ==
    /\ env = NoEnv /\ segments = <<>> /\ num_segments = 0 /\ i = 0
    /\ srt_sequences = <<>> /\ timestamped_lines = <<>>
    /\ txtFile = NoFile /\ srtFile = NoFile

(***************************************************************************)
(* SpecPatcher: a WavLengthPatcher over a stream, read in any split.       *)
(***************************************************************************)
\* Offsets of the two 4-byte length fields of the header the producer writes.
FieldOffsets == {4, 5, 6, 7, 74, 75, 76, 77}

ShortLens == {0, 5, 76, HeaderEnd}
FillSeeds == {0, 3}
BadBytes  == {0, 240}
BadSets   == {{o} : o \in {4, 5, 6, 7, 74, 75, 76, 77}} \cup {{4, 74}, {7, 75}}

\* A byte of the stream outside the two length fields.
Filler(o, seed) == IF seed = 0 THEN 255 ELSE (o * 7 + seed) % 256

MkStream(len, bad, badByte, seed) ==
    [k \in 1..len |->
        IF (k - 1) \in FieldOffsets
        THEN IF (k - 1) \in bad THEN badByte ELSE 255
        ELSE Filler(k - 1, seed)]

\* Streams with both length fields 0xFF (short ones, all of one byte or varied, and
\* a long varied one), and short streams with one or two other bytes in the fields.
Streams ==
    {MkStream(len, {}, 0, seed) : len \in ShortLens, seed \in FillSeeds}
    \cup {MkStream(MaxStreamLen, {}, 0, 3)}
    \cup {MkStream(len, bad, b, 3) : len \in ShortLens, bad \in BadSets, b \in BadBytes}

\* WavLengthPatcher::new
PatcherInit ==
    /\ stream \in Streams
    /\ off = 0
    /\ pos = 0
    /\ outp = <<>>
    /\ ret = "none"
    /\ ovf = FALSE
    /\ IdleParse /\ IdleFmt /\ IdleMain
    /\ pc = "patcher" /\ panicMsg = ""

\* WavLengthPatcher::read when the underlying read returns Ok(l): l is any count
\* up to what the source still holds (0 included, at end of input or before).
ReadStep ==
    /\ ret \notin {"panic", "err"}
    /\ \E l \in 0..Min(MaxRead, Len(stream) - off) :
        LET chunk == SubSeq(stream, off + 1, off + l)
            r     == PatcherRead(pos, chunk)
        IN  /\ off' = off + l
            /\ pos' = r.pos
            /\ ovf' = (ovf \/ r.ovf)
            /\ ret' = IF r.panicked THEN "panic" ELSE "ok"
            /\ outp' = IF r.panicked THEN outp ELSE outp \o SubSeq(r.buf, 1, r.n)
    /\ UNCHANGED <<stream, parseVars, fmtVars, mainVars>>

Read ==
    /\ pc = "patcher"
    /\ ReadStep
    /\ UNCHANGED <<pc, panicMsg>>

\* WavLengthPatcher::read when the underlying read returns Err: `?` returns it,
\* and every reader above (BufReader, the wav reader, expect) fails on it.
ReadErr ==
    /\ pc = "patcher"
    /\ ret \notin {"panic", "err"}
    /\ ret' = "err"
    /\ UNCHANGED <<stream, off, pos, outp, ovf, parseVars, fmtVars, mainVars, pc, panicMsg>>

PatcherNext == Read \/ ReadErr

SpecPatcher == PatcherInit /\ [][PatcherNext]_vars

(***************************************************************************)
(* Claims about WavLengthPatcher (SpecPatcher).                            *)
(***************************************************************************)
\* Every byte the stream has at an offset of a length field is 0xFF.
GoodHeader ==
    \A o \in FieldOffsets : o < Len(stream) => stream[o + 1] = 255

\* A 16-bit little-endian half of a length field, at offset o of s.
LE16(s, o) == s[o + 1] + 256 * s[o + 2]

\* C1: for a stream whose bytes at offsets 4..7 and 74..77 are all 0xFF, read in
\* any split, no read panics, the bytes handed to the consumer are as many as the
\* underlying reads returned (so each call returns the underlying count) and are
\* the input with exactly offsets 4 and 74 replaced by 0xF0; both length fields
\* then parse (little-endian) as 0xFFFFFFF0 = 0xFFFF * 65536 + 0xFFF0.
C1_PatchedStream ==
    GoodHeader =>
        /\ ret # "panic"
        /\ Len(outp) = off
        /\ \A k \in 1..Len(outp) :
              outp[k] = IF (k - 1) \in {4, 74} THEN 240 ELSE stream[k]
        /\ Len(outp) >= 8  => LE16(outp, 4) = 65520 /\ LE16(outp, 6) = 65535
        /\ Len(outp) >= 78 => LE16(outp, 74) = 65520 /\ LE16(outp, 76) = 65535

\* The whole long stream was forwarded, by a read that ended inside the second
\* length field (at offset 76) followed by one of 78 bytes or more.
C1_Witness ==
    /\ GoodHeader
    /\ Len(stream) > 78
    /\ Len(outp) = Len(stream)
    /\ pos = 76 + 78

\* A byte other than 0xFF at an offset of a length field has been received.
BadReceived ==
    \E o \in FieldOffsets : o < off /\ stream[o + 1] # 255

\* C2: the patcher has panicked exactly when it has received a byte other than
\* 0xFF at one of the offsets 4..7, 74..77; the call that received it returned
\* nothing, so the consumer never holds such a byte.
C2_PanicIffBadSentinel ==
    /\ (ret = "panic") <=> BadReceived
    /\ \A o \in FieldOffsets : o < Len(outp) => stream[o + 1] = 255
    /\ ret = "panic" => Len(outp) < off

\* A read that began inside the second length field met a bad last byte of it.
C2_Witness ==
    /\ ret = "panic"
    /\ Len(stream) >= 78
    /\ stream[78] # 255
    /\ Len(outp) = 76

\* C10: pos never decreases and no longer changes from 78 on; below 78 it is the
\* number of bytes forwarded; it never exceeds 155 and no u8 addition overflows.
C10_PosCounter ==
    /\ [](/\ pos \in 0..155
          /\ ~ovf
          /\ pos < 78 => pos = Len(outp))
    /\ [][/\ pos' >= pos
          /\ pos >= 78 => pos' = pos]_vars

\* The counter at its largest: 77 bytes, then a read of 78 or more.
C10_Witness ==
    pos = 155

(***************************************************************************)
(* parse_wav                                                               *)
(***************************************************************************)
Required ==
    [channels |-> 1, sample_format |-> "Int", sample_rate |-> 16000, bits_per_sample |-> 16]

\* A variant of ProfileError that does not look at the bit depth.
ProfileErrorNoBits(sp) ==
    IF sp.channels # 1 THEN "expected mono audio file"
    ELSE IF sp.sample_format # "Int" THEN "expected integer sample format"
    ELSE IF sp.sample_rate # 16000 THEN "expected 16KHz sample rate"
    ELSE ""

\* The four checks of reader.spec(): the message of the first that panics, or "".
ProfileError(sp) ==
    IF sp.channels # 1 THEN "expected mono audio file"
    ELSE IF sp.sample_format # "Int" THEN "expected integer sample format"
    ELSE IF sp.sample_rate # 16000 THEN "expected 16KHz sample rate"
    ELSE IF sp.bits_per_sample # 16 THEN "expected 16 bits per sample"
    ELSE ""

\* Two bytes, little-endian, as an i16.
I16(lo, hi) ==
    LET u == lo + 256 * hi IN IF u >= 32768 THEN u - 65536 ELSE u

\* Samples a data chunk of 0xFFFFFFF0 bytes declares, at 2 bytes a sample.
StreamedSamples == 2147483640

\* One call of the iterator of reader.into_samples::<i16>() (the wav reader crate):
\* None once the declared count is reached; else a read of two bytes, which gives
\* the injected error, a sample, or the I/O error "Failed to read enough bytes."
\* when fewer than two bytes are left.  [kind, value, used].
SamplesNext ==
    IF samples_read >= num_samples
    THEN [kind |-> "end", value |-> 0, used |-> 0]
    ELSE IF fault.kind # "none" /\ fault.at = nreads + 1
    THEN [kind |-> fault.kind, value |-> 0, used |-> 0]
    ELSE IF Len(data) - bytePos >= 2
    THEN [kind |-> "ok", value |-> I16(data[bytePos + 1], data[bytePos + 2]), used |-> 2]
    ELSE [kind |-> "io_eof", value |-> 0, used |-> Len(data) - bytePos]

\* A variant of MapWhile that panics on every error.
MapWhileNoEof(kind) ==
    IF kind = "ok" THEN "some" ELSE "panic"

\* A variant of MapWhile that ends on every I/O error that has an inner error.
MapWhileAnyIo(kind) ==
    IF kind = "ok" THEN "some"
    ELSE IF kind \in {"io_eof", "io_other"} THEN "none"
    ELSE "panic"

\* The closure of map_while on Some(sample): Ok(sample) passes the sample on, an
\* IoError whose inner error displays as "Failed to read enough bytes." ends the
\* iteration, every other error panics.
MapWhile(kind) ==
    IF kind = "ok" THEN "some"
    ELSE IF kind = "io_eof" THEN "none"
    ELSE "panic"

\* parse_wav, lines 50-61.
ParseCheck ==
    /\ pc = "parse_wav"
    /\ LET msg == ProfileError(wavspec)
       IN  /\ pc' = IF msg = "" THEN "samples" ELSE "panicked"
           /\ panicMsg' = msg
    /\ UNCHANGED <<patcherVars, parseVars, fmtVars, mainVars>>

\* One step of .map_while(..).collect(): the next outcome of the iterator goes
\* through the closure; collect returns when the iterator or the closure ends it.
ReadSample ==
    /\ pc = "samples"
    /\ LET r == SamplesNext
           c == IF r.kind = "end" THEN "none" ELSE MapWhile(r.kind)
       IN  /\ nreads' = nreads + 1
           /\ last' = r.kind
           /\ samples_read' = IF r.kind = "end" THEN samples_read ELSE samples_read + 1
           /\ bytePos' = bytePos + r.used
           /\ collected' = IF c = "some" THEN Append(collected, r.value) ELSE collected
           /\ pc' = CASE c = "some"  -> "samples"
                      [] c = "none"  -> "parsed"
                      [] c = "panic" -> "panicked"
           /\ audio_data' = IF c = "none" THEN [set |-> TRUE, v |-> collected] ELSE audio_data
           /\ panicMsg' = IF c = "panic" THEN "Error reading audio data" ELSE panicMsg
    /\ UNCHANGED <<patcherVars, wavspec, data, num_samples, fault, fmtVars, mainVars>>

(***************************************************************************)
(* SpecParse: one call of parse_wav.                                       *)
(***************************************************************************)
DataBytes == {0, 128, 255}
Profiles ==
    [channels : {1, 2}, sample_format : {"Int", "Float"},
     sample_rate : {16000, 44100}, bits_per_sample : {16, 8}]
FaultKinds == {"io_other", "io_noinner", "format"}
Faults ==
    {NoFault} \cup [at : 1..(MaxSamples + 1), kind : FaultKinds]
Datas ==
    UNION {[1..n -> DataBytes] : n \in 0..(2 * MaxSamples + 1)}

ParseInit ==
    /\ \/ /\ wavspec = Required
          /\ data \in Datas
          /\ fault \in Faults
       \/ /\ wavspec \in Profiles \ {Required}
          /\ data = <<0, 128, 255>>
          /\ fault = NoFault
    /\ num_samples \in {Len(data) \div 2, StreamedSamples}
    /\ samples_read = 0 /\ bytePos = 0 /\ collected = <<>> /\ last = "none"
    /\ audio_data = NoAudio /\ nreads = 0
    /\ IdlePatcher /\ IdleFmt /\ IdleMain
    /\ pc = "parse_wav" /\ panicMsg = ""

ParseNext == ParseCheck \/ ReadSample

SpecParse == ParseInit /\ [][ParseNext]_vars

\* The samples of the whole 2-byte frames of the data, in stream order.
WholeSamples ==
    [k \in 1..(Len(data) \div 2) |-> I16(data[2 * k - 1], data[2 * k])]

\* C3: with the required profile and no other read error, parse_wav never
\* panics, and when it returns (N whole samples followed by k < 2 bytes, the count
\* declared exactly or as for an unbounded stream) it returns exactly the N
\* samples in order, after N + 1 calls of the iterator and none further.
C3_TruncatedTailReturns ==
    (wavspec = Required /\ fault = NoFault) =>
        /\ pc # "panicked"
        /\ Len(collected) <= Len(data) \div 2
        /\ pc = "parsed" =>
              /\ audio_data = [set |-> TRUE, v |-> WholeSamples]
              /\ nreads = Len(data) \div 2 + 1
        /\ last = "io_eof" => pc = "parsed"

\* Two samples and one trailing byte of an unbounded stream: the third read fails
\* with the truncated-frame error and the two samples are returned.
C3_Witness ==
    /\ wavspec = Required /\ fault = NoFault
    /\ Len(data) = 5
    /\ num_samples = StreamedSamples
    /\ last = "io_eof"
    /\ pc = "parsed"
    /\ Len(audio_data.v) = 2

\* C4: once a sample read has failed with an error other than the truncated-frame
\* end of input, parse_wav has panicked and has returned no buffer, whatever it
\* had collected; and parse_wav panics while reading samples only then.
C4_OtherErrorsFatal ==
    /\ last \in FaultKinds => pc = "panicked" /\ audio_data = NoAudio
    /\ pc = "panicked" => ~audio_data.set
    /\ (pc = "panicked" /\ nreads > 0) => last \in FaultKinds

\* An I/O error with other content hit the third read, after two good samples.
C4_Witness ==
    /\ last = "io_other"
    /\ Len(collected) = 2
    /\ pc = "panicked"
    /\ audio_data = NoAudio

\* The field the diagnostic of a mismatching profile names, by the order
\* channel count, sample encoding, sample rate, bit depth.
FirstMismatch(sp) ==
    CASE sp.channels # 1             -> "expected mono audio file"
      [] sp.sample_format # "Int"    -> "expected integer sample format"
      [] sp.sample_rate # 16000      -> "expected 16KHz sample rate"
      [] sp.bits_per_sample # 16     -> "expected 16 bits per sample"
      [] OTHER                       -> ""

\* C5: samples are read only under the profile {1, Int, 16000, 16}; any other
\* profile panics before the first read, with the message of its first
\* mismatching field.
C5_ProfileGate ==
    /\ (nreads > 0 \/ pc \in {"samples", "parsed"}) => wavspec = Required
    /\ (wavspec # Required /\ pc # "parse_wav") =>
          /\ pc = "panicked"
          /\ nreads = 0
          /\ ~audio_data.set
          /\ panicMsg = FirstMismatch(wavspec)
          /\ panicMsg # ""

\* Only the bit depth deviates (8 bits): the run stops on that diagnostic.
C5_Witness ==
    /\ wavspec = [Required EXCEPT !.bits_per_sample = 8]
    /\ pc = "panicked"
    /\ panicMsg = "expected 16 bits per sample"
    /\ nreads = 0

(***************************************************************************)
(* segment_time_to_srt_time_string                                         *)
(***************************************************************************)
\* i64 division and remainder: the quotient is truncated toward zero.
TruncDiv(a, b) == IF a >= 0 THEN a \div b ELSE -((-a) \div b)
TruncRem(a, b) == a - b * TruncDiv(a, b)

DigitChar == <<"0", "1", "2", "3", "4", "5", "6", "7", "8", "9">>

\* The decimal digits of n >= 0.
RECURSIVE Digits(_)
Digits(n) ==
    IF n < 10 THEN <<DigitChar[n + 1]>>
    ELSE Digits(n \div 10) \o <<DigitChar[(n % 10) + 1]>>

RECURSIVE Zeros(_)
Zeros(n) == IF n <= 0 THEN <<>> ELSE <<"0">> \o Zeros(n - 1)

\* format!("{:0w}", n): at least w characters, the sign first, zeros after it.
FmtInt(n, w) ==
    IF n >= 0
    THEN Zeros(w - Len(Digits(n))) \o Digits(n)
    ELSE <<"-">> \o Zeros(w - 1 - Len(Digits(-n))) \o Digits(-n)

\* A variant of PositiveTime that does not clamp.
PositiveTimeNoClamp(t) == t * 10

\* cmp::max(0, time) * 10
PositiveTime(t) == Max(0, t) * 10

\* A variant of SecondsOf that does not wrap at 60.
SecondsNoWrap(positive_time) == TruncDiv(positive_time, 1000)

\* (positive_time / 1000) % 60
SecondsOf(positive_time) == TruncRem(TruncDiv(positive_time, 1000), 60)

segment_time_to_srt_time_string(t) ==
    LET positive_time == PositiveTime(t)
        ms      == TruncRem(positive_time, 1000)
        seconds == SecondsOf(positive_time)
        minutes == TruncRem(TruncDiv(TruncDiv(positive_time, 1000), 60), 60)
        hours   == TruncDiv(TruncDiv(TruncDiv(positive_time, 1000), 60), 60)
    IN  FmtInt(hours, 2) \o <<":">> \o FmtInt(minutes, 2) \o <<":">>
            \o FmtInt(seconds, 2) \o <<",">> \o FmtInt(ms, 3)

(***************************************************************************)
(* SpecFmt: one call of segment_time_to_srt_time_string.                   *)
(***************************************************************************)
\* Centisecond times around every carry: into seconds, minutes, hours, and a
\* third hour digit.
CarryTimes ==
    {h * 360000 + m * 6000 + sec * 100 + c :
        h \in {0, 1, 99, 100}, m \in {0, 59}, sec \in {0, 59}, c \in {0, 99}}

TimeInputs ==
    (-MaxTime..MaxTime) \cup {-4550, 1999, 838850, 5602555}
        \cup CarryTimes \cup {-t : t \in CarryTimes}

FmtInit ==
    /\ time \in TimeInputs
    /\ clock = <<>>
    /\ IdlePatcher /\ IdleParse /\ IdleMain
    /\ pc = "format" /\ panicMsg = ""

Format ==
    /\ pc = "format"
    /\ clock' = segment_time_to_srt_time_string(time)
    /\ pc' = "formatted"
    /\ UNCHANGED <<patcherVars, parseVars, time, mainVars, panicMsg>>

FmtNext == Format

SpecFmt == FmtInit /\ [][FmtNext]_vars

\* C6: every negative time is rendered as 00:00:00,000.
C6_NegativeIsZero ==
    (pc = "formatted" /\ time < 0) =>
        clock = <<"0", "0", ":", "0", "0", ":", "0", "0", ",", "0", "0", "0">>

\* The negative time of the repository's test has been formatted.
C6_Witness ==
    pc = "formatted" /\ time = -4550

IsDigit(c) == \E d \in 1..10 : DigitChar[d] = c
DigitVal(c) == (CHOOSE d \in 1..10 : DigitChar[d] = c) - 1

\* The number a sequence of digits writes.
RECURSIVE Val(_)
Val(ds) ==
    IF ds = <<>> THEN 0
    ELSE 10 * Val(SubSeq(ds, 1, Len(ds) - 1)) + DigitVal(ds[Len(ds)])

\* C7: a time t >= 0 is rendered as HH:MM:SS,mmm, HH of two digits or more, with
\* mmm = 10t mod 1000, SS = (10t / 1000) mod 60, MM = (10t / 60000) mod 60 and
\* HH = 10t / 3600000 not wrapped; SS and MM lie in 0..59, mmm in 0..990, and the
\* four add up to 10t.  1999, 838850 and 5602555 give the strings of the test.
C7_ClockDecomposition ==
    (pc = "formatted" /\ time >= 0) =>
        LET n   == Len(clock)
            HH  == SubSeq(clock, 1, n - 10)
            MM  == SubSeq(clock, n - 8, n - 7)
            SS  == SubSeq(clock, n - 5, n - 4)
            mmm == SubSeq(clock, n - 2, n)
            total_ms == 10 * time
        IN  /\ n >= 12
            /\ clock[n - 9] = ":" /\ clock[n - 6] = ":" /\ clock[n - 3] = ","
            /\ \A k \in (1..n) \ {n - 9, n - 6, n - 3} : IsDigit(clock[k])
            /\ Val(mmm) = total_ms % 1000
            /\ Val(SS) = (total_ms \div 1000) % 60
            /\ Val(MM) = ((total_ms \div 1000) \div 60) % 60
            /\ Val(HH) = ((total_ms \div 1000) \div 60) \div 60
            /\ Val(SS) \in 0..59 /\ Val(MM) \in 0..59 /\ Val(mmm) \in 0..990
            /\ Val(HH) * 3600000 + Val(MM) * 60000 + Val(SS) * 1000 + Val(mmm) = total_ms
            /\ time = 1999 =>
                 clock = <<"0", "0", ":", "0", "0", ":", "1", "9", ",", "9", "9", "0">>
            /\ time = 838850 =>
                 clock = <<"0", "2", ":", "1", "9", ":", "4", "8", ",", "5", "0", "0">>
            /\ time = 5602555 =>
                 clock = <<"1", "5", ":", "3", "3", ":", "4", "5", ",", "5", "5", "0">>

\* A time of 100 hours and more has been formatted: HH takes three digits.
C7_Witness ==
    /\ pc = "formatted"
    /\ time = 100 * 360000 + 59 * 6000 + 59 * 100 + 99
    /\ Len(clock) = 13

(***************************************************************************)
(* main                                                                    *)
(***************************************************************************)
Panic(msg) == pc' = "panicked" /\ panicMsg' = msg

\* An output file left by an earlier run.
StaleFile == [exists |-> TRUE, lines |-> <<"old">>]

\* The output file as the run found it.
InitialFile == IF env.old THEN StaleFile ELSE NoFile

\* What a reader finds once the header is accepted: the profile, the data bytes,
\* the declared count and an error one of the sample reads may meet.
ReaderStates ==
    {[wavspec |-> sp, data |-> d, num_samples |-> n, fault |-> f] :
        sp \in {Required, [Required EXCEPT !.channels = 2]},
        d \in {<<>>, <<0, 128, 255>>},
        n \in {1, StreamedSamples},
        f \in {NoFault, [at |-> 2, kind |-> "io_other"]}}

\* WavReader::new(..) returned Ok: main goes on to parse_wav(wavreader).
ReaderBuilt ==
    \E r \in ReaderStates :
        /\ wavspec' = r.wavspec
        /\ data' = r.data
        /\ num_samples' = r.num_samples
        /\ fault' = r.fault
        /\ pc' = "parse_wav"
        /\ UNCHANGED <<samples_read, bytePos, collected, last, audio_data, nreads, panicMsg>>

\* main, lines 98-101.
CheckModel ==
    /\ pc = "main"
    /\ IF env.model THEN pc' = "construct" /\ UNCHANGED panicMsg
       ELSE Panic("model does not exist")
    /\ UNCHANGED <<patcherVars, parseVars, fmtVars, mainVars>>

\* construct_wavreader with a terminal on stdin: the input file.
ConstructFile ==
    /\ pc = "construct"
    /\ env.tty
    /\ CASE env.input = "none"       ->
                Panic("audio file not provided") /\ UNCHANGED parseVars
         [] env.input = "missing"    ->
                Panic("audio file doesn't exist") /\ UNCHANGED parseVars
         [] env.input = "unopenable" ->
                Panic("Failed to open audio file") /\ UNCHANGED parseVars
         [] env.input = "notwav"     ->
                Panic("failed to read file") /\ UNCHANGED parseVars
         [] env.input = "wav"        -> ReaderBuilt
    /\ UNCHANGED <<patcherVars, fmtVars, mainVars>>

\* construct_wavreader without a terminal: WavLengthPatcher::new(stdin), and
\* WavReader::new starts to read the header through it.
ConstructStdin ==
    /\ pc = "construct"
    /\ ~env.tty
    /\ pc' = "header"
    /\ UNCHANGED <<patcherVars, parseVars, fmtVars, mainVars, panicMsg>>

\* A read of the header through the patcher; a failed assert_eq! ends the run.
HeaderRead ==
    /\ pc = "header"
    /\ off < HeaderEnd
    /\ ReadStep
    /\ IF ret' = "panic" THEN Panic("assertion failed: left == right")
       ELSE UNCHANGED <<pc, panicMsg>>

\* The underlying read of stdin fails while the header is read.
HeaderReadErr ==
    /\ pc = "header"
    /\ off < HeaderEnd
    /\ ret # "err"
    /\ ret' = "err"
    /\ UNCHANGED <<stream, off, pos, outp, ovf, parseVars, fmtVars, mainVars, pc, panicMsg>>

\* WavReader::new(..).expect("Input is not valid wav"): the header is complete and
\* accepted, or it is refused, cut short by the end of input, or unreadable.
HeaderDone ==
    /\ pc = "header"
    /\ \/ /\ off >= HeaderEnd
          /\ ReaderBuilt
       \/ /\ \/ off >= HeaderEnd
             \/ off = Len(stream)
             \/ ret = "err"
          /\ Panic("Input is not valid wav")
          /\ UNCHANGED parseVars
    /\ UNCHANGED <<patcherVars, fmtVars, mainVars>>

\* parse_wav has returned: the reader it consumed, and with it the patcher and
\* stdin, are dropped.  convert_integer_to_float_audio, then WhisperContext::new.
LoadModel ==
    /\ pc = "parsed"
    /\ stream' = <<>> /\ off' = 0 /\ pos' = 0 /\ outp' = <<>> /\ ret' = "none" /\ ovf' = FALSE
    /\ wavspec' = NoSpec /\ data' = <<>> /\ num_samples' = 0 /\ samples_read' = 0
    /\ bytePos' = 0 /\ fault' = NoFault /\ collected' = <<>> /\ last' = "none" /\ nreads' = 0
    /\ \/ pc' = "create_state" /\ UNCHANGED panicMsg
       \/ Panic("Failed to load model")
    /\ UNCHANGED <<audio_data, fmtVars, mainVars>>

\* ctx.create_state()
CreateState ==
    /\ pc = "create_state"
    /\ \/ pc' = "full" /\ UNCHANGED panicMsg
       \/ Panic("failed to create state")
    /\ UNCHANGED <<patcherVars, parseVars, fmtVars, mainVars>>

SegTexts == {"hello", "world"}
Segs == [t0 : {-4550, 500}, t1 : {-1, 1200}, text : SegTexts]
SegLists == UNION {[1..n -> Segs] : n \in 0..MaxSegments}

\* state.full(params, &ingested_wav): the engine, a black box, holds its segments.
RunModel ==
    /\ pc = "full"
    /\ \/ /\ segments' \in SegLists
          /\ pc' = "n_segments"
          /\ UNCHANGED panicMsg
       \/ /\ Panic("failed to run model")
          /\ UNCHANGED segments
    /\ UNCHANGED <<patcherVars, parseVars, fmtVars, env, num_segments, i, srt_sequences,
                   timestamped_lines, txtFile, srtFile>>

\* state.full_n_segments(), and the two empty vectors.
GetNumSegments ==
    /\ pc = "n_segments"
    /\ \/ /\ num_segments' = Len(segments)
          /\ i' = 0
          /\ srt_sequences' = <<>>
          /\ timestamped_lines' = <<>>
          /\ pc' = "loop"
          /\ UNCHANGED panicMsg
       \/ /\ Panic("failed to get number of segments")
          /\ UNCHANGED <<num_segments, i, srt_sequences, timestamped_lines>>
    /\ UNCHANGED <<patcherVars, parseVars, fmtVars, env, segments, txtFile, srtFile>>

\* A variant of CueNumber that numbers from 0.
CueNumberZeroBased(k) == k

\* i+1
CueNumber(k) == k + 1

\* format!("{}\n{srt_start_timestamp} --> {srt_end_timestamp}\n{segment}\n\n", i+1)
SrtFormatted(k, seg) ==
    FmtInt(CueNumber(k), 0) \o <<"\n">>
        \o segment_time_to_srt_time_string(seg.t0) \o <<" --> ">>
        \o segment_time_to_srt_time_string(seg.t1) \o <<"\n", seg.text, "\n\n">>

\* format!("[{} - {}]: {}", start_timestamp, end_timestamp, segment), then "{}\n"
Timestamped(seg) ==
    <<"[">> \o FmtInt(seg.t0, 0) \o <<" - ">> \o FmtInt(seg.t1, 0)
        \o <<"]: ", seg.text>> \o <<"\n">>

\* A variant of LoopIter that writes the transcript file as it goes.
LoopIterWriting ==
    /\ pc = "loop"
    /\ \/ /\ i < num_segments
          /\ LET seg == segments[i + 1]
             IN  /\ srt_sequences' = Append(srt_sequences, SrtFormatted(i, seg))
                 /\ timestamped_lines' = Append(timestamped_lines, Timestamped(seg))
          /\ txtFile' = [exists |-> TRUE, lines |-> timestamped_lines']
          /\ i' = i + 1
          /\ UNCHANGED <<pc, panicMsg>>
       \/ /\ i < num_segments
          /\ \E msg \in {"failed to get segment",
                         "failed to get segment start timestamp",
                         "failed to get segment end timestamp"} : Panic(msg)
          /\ UNCHANGED <<i, srt_sequences, timestamped_lines, txtFile>>
       \/ /\ i >= num_segments
          /\ pc' = "write_txt"
          /\ UNCHANGED <<i, srt_sequences, timestamped_lines, panicMsg, txtFile>>
    /\ UNCHANGED <<patcherVars, parseVars, fmtVars, env, segments, num_segments, srtFile>>

\* One pass of `for i in 0..num_segments`: the three fetches, each of which may
\* fail, and the two pushes; or the end of the loop.
LoopIter ==
    /\ pc = "loop"
    /\ \/ /\ i < num_segments
          /\ LET seg == segments[i + 1]
             IN  /\ srt_sequences' = Append(srt_sequences, SrtFormatted(i, seg))
                 /\ timestamped_lines' = Append(timestamped_lines, Timestamped(seg))
          /\ i' = i + 1
          /\ UNCHANGED <<pc, panicMsg>>
       \/ /\ i < num_segments
          /\ \E msg \in {"failed to get segment",
                         "failed to get segment start timestamp",
                         "failed to get segment end timestamp"} : Panic(msg)
          /\ UNCHANGED <<i, srt_sequences, timestamped_lines>>
       \/ /\ i >= num_segments
          /\ pc' = "write_txt"
          /\ UNCHANGED <<i, srt_sequences, timestamped_lines, panicMsg>>
    /\ UNCHANGED <<patcherVars, parseVars, fmtVars, env, segments, num_segments,
                   txtFile, srtFile>>

\* write_to_file(path, lines) on the file f, ending at `next` when all is written:
\* File::create fails and leaves the file as it is, or truncates it; then the
\* lines are written in order until one write fails.  file is f's next value.
WriteToFile(f, lines, file, next) ==
    \/ /\ file = f
       /\ Panic("Could not create file")
    \/ \E k \in 0..(Len(lines) - 1) :
          /\ file = [exists |-> TRUE, lines |-> SubSeq(lines, 1, k)]
          /\ Panic("Could not write to file")
    \/ /\ file = [exists |-> TRUE, lines |-> lines]
       /\ pc' = next
       /\ UNCHANGED panicMsg

\* main, line 137.
WriteTxt ==
    /\ pc = "write_txt"
    /\ WriteToFile(txtFile, timestamped_lines, txtFile', "write_srt")
    /\ UNCHANGED <<patcherVars, parseVars, fmtVars, env, segments, num_segments, i,
                   srt_sequences, timestamped_lines, srtFile>>

\* main, line 138.
WriteSrt ==
    /\ pc = "write_srt"
    /\ WriteToFile(srtFile, srt_sequences, srtFile', "done")
    /\ UNCHANGED <<patcherVars, parseVars, fmtVars, env, segments, num_segments, i,
                   srt_sequences, timestamped_lines, txtFile>>

(***************************************************************************)
(* SpecMain: one run of main.                                              *)
(***************************************************************************)
\* The --input argument matters only with a terminal on stdin.
Envs ==
    {e \in [model : BOOLEAN, tty : BOOLEAN,
            input : {"none", "missing", "unopenable", "notwav", "wav"}, old : BOOLEAN] :
        ~e.tty => e.input = "none"}

\* What stdin may hold: a header as the producer writes it, one with another byte
\* in a length field, and a stream that ends inside the header.
MainStreams ==
    {MkStream(HeaderEnd, {}, 0, 3), MkStream(HeaderEnd, {4}, 0, 3),
     MkStream(HeaderEnd, {77}, 240, 3), MkStream(5, {}, 0, 3)}

MainInit ==
    /\ env \in Envs
    /\ stream \in (IF env.tty THEN {<<>>} ELSE MainStreams)
    /\ off = 0 /\ pos = 0 /\ outp = <<>> /\ ret = "none" /\ ovf = FALSE
    /\ IdleParse /\ IdleFmt
    /\ segments = <<>> /\ num_segments = 0 /\ i = 0
    /\ srt_sequences = <<>> /\ timestamped_lines = <<>>
    /\ txtFile = InitialFile /\ srtFile = InitialFile
    /\ pc = "main" /\ panicMsg = ""

MainNext ==
    \/ CheckModel
    \/ ConstructFile
    \/ ConstructStdin
    \/ HeaderRead
    \/ HeaderReadErr
    \/ HeaderDone
    \/ ParseCheck
    \/ ReadSample
    \/ LoadModel
    \/ CreateState
    \/ RunModel
    \/ GetNumSegments
    \/ LoopIter
    \/ WriteTxt
    \/ WriteSrt

SpecMain == MainInit /\ [][MainNext]_vars

\* An integer as `{}` displays it.
Shown(n) == IF n < 0 THEN <<"-">> \o Digits(-n) ELSE Digits(n)

\* C8: the loop leaves, for n segments, n transcript lines and n cues; the k-th of
\* each comes from the segment of engine index k-1, the k-th cue is numbered k and
\* carries the clocks of the times clamped at zero, the k-th line carries the raw
\* times, negative ones included; nothing is reordered, dropped or repeated.
C8_Assembly ==
    /\ Len(timestamped_lines) = i
    /\ Len(srt_sequences) = i
    /\ i <= Len(segments)
    /\ pc \in {"write_txt", "write_srt", "done"} => i = Len(segments)
    /\ \A k \in 1..i :
          LET seg == segments[k]
          IN  /\ timestamped_lines[k] =
                     <<"[">> \o Shown(seg.t0) \o <<" - ">> \o Shown(seg.t1)
                         \o <<"]: ", seg.text, "\n">>
              /\ srt_sequences[k] =
                     Digits(k) \o <<"\n">>
                         \o segment_time_to_srt_time_string(Max(0, seg.t0)) \o <<" --> ">>
                         \o segment_time_to_srt_time_string(Max(0, seg.t1))
                         \o <<"\n", seg.text, "\n\n">>
              /\ seg.t0 < 0 =>
                     /\ timestamped_lines[k][2] = "-"
                     /\ SubSeq(srt_sequences[k], 3, 14) =
                            <<"0", "0", ":", "0", "0", ":", "0", "0", ",", "0", "0", "0">>

\* A run has ended with two different segments, the first of a negative start.
C8_Witness ==
    /\ pc = "done"
    /\ Len(segments) = 2
    /\ segments[1].t0 < 0
    /\ segments[1] # segments[2]
    /\ Len(srtFile.lines) = 2

WriteMsgs == {"Could not create file", "Could not write to file"}

\* C9: until the writing begins, and after any panic of an earlier stage, both
\* output files are as the run found them; a file is touched only once the
\* samples are decoded, the engine has returned and every segment is fetched; and
\* the .srt file is touched only after the .txt file is written in full.
C9_NoOutputBeforeSuccess ==
    /\ (pc \notin {"write_srt", "done"} /\ panicMsg \notin WriteMsgs) =>
          txtFile = InitialFile /\ srtFile = InitialFile
    /\ (txtFile # InitialFile \/ srtFile # InitialFile) =>
          /\ audio_data.set
          /\ num_segments = Len(segments)
          /\ i = num_segments
          /\ Len(timestamped_lines) = num_segments
          /\ Len(srt_sequences) = num_segments
    /\ srtFile # InitialFile =>
          txtFile = [exists |-> TRUE, lines |-> timestamped_lines]

\* The fetch of the second segment failed, after the first was rendered, with
\* stale output files in place: they are still as they were.
C9_Witness ==
    /\ pc = "panicked"
    /\ panicMsg = "failed to get segment start timestamp"
    /\ i = 1
    /\ env.old
    /\ txtFile = StaleFile /\ srtFile = StaleFile

====
